---- MODULE Spec2Model ----
(***************************************************************************)
(* PIMA alarm panel protocol engine (custom_components/pima).              *)
(*                                                                         *)
(* Bytes objects and Python strings are sequences of byte values 0..255.   *)
(* An Optional[str] is a sequence of length 0 (None) or 1 (the string).    *)
(***************************************************************************)
EXTENDS Integers, Sequences, FiniteSets, TLC

VARIABLES
    \* ---- one invocation of a facade operation (pima_protocol.py) ----
    pc,         \* position of the worker in _connect_and_execute / the facade
    op,         \* the facade operation invoked
    command,    \* the command string passed to _connect_and_execute
    attempt,    \* number of loop iterations started (the loop index is attempt - 1)
    sock,       \* the local variable sock: 0 is None, else an index into socks
    socks,      \* every TCP socket object created, in order of creation
    udp,        \* the UDP socket of the current _send_udp_knocks call
    cmd_response, \* the local variable response of _connect_and_execute (None: unset)
    result,     \* the local variable result of _connect_and_execute
    response,   \* what _connect_and_execute returned
    ret,        \* what the facade operation returned
    raised,     \* the facade operation ended by an exception
    events,     \* history: what the worker did, in order, with the iteration
    logged,     \* the records the last step of the worker handed to _LOGGER
    \* ---- the frame codec applied to one input ----
    cstage,     \* "idle", "input", "checksummed", "framed", "tampered", "decoded",
                \* "decoded_tampered"
    cin,        \* the ASCII payload the frame is built from
    ckind,      \* "command" (built by _create_command), "response" or "flagged"
                \* (panel), "checksum" (_calculate_crc alone)
    raw,        \* the bytes handed to _parse_response
    parsed,     \* what _parse_response returned
    \* ---- two overlapping invocations of _connect_and_execute ----
    calls,      \* the local variables of each invocation
    conns,      \* the TCP sockets of both invocations
    \* ---- the coordinator and the entity (__init__.py, alarm_control_panel.py) ----
    coordinator_data, \* coordinator.data: None or the value of its "state" key
    last_update_success, \* FALSE after an update that raised UpdateFailed
    writes      \* number of async_write_ha_state calls

workerVars == <<pc, op, command, attempt, sock, socks, udp, cmd_response, result,
                response, ret, raised, events>>
ctlVars == <<workerVars, logged>>
codecVars == <<cstage, cin, ckind, raw, parsed>>
pairVars == <<calls, conns>>
hostVars == <<coordinator_data, last_update_success, writes>>
vars == <<pc, op, command, attempt, sock, socks, udp, cmd_response, result,
          response, ret, raised, events, logged, cstage, cin, ckind, raw, parsed,
          calls, conns, coordinator_data,
          last_update_success, writes>>

----------------------------------------------------------------------------
(* Bounds of the model *)

\* longest payload the codec specification frames
MaxPayloadLen == 3

----------------------------------------------------------------------------
(* const.py *)

RETRY_ATTEMPTS == 3
FRAME_START == <<219>>
FRAME_END == <<220>>
COMMAND_FLAG == <<255>>

STATE_DISARMED == "disarmed"
STATE_ARMED_AWAY == "armed_away"
STATE_ARMED_HOME == "armed_home"
STATE_ARMED_NIGHT == "armed_night"

\* the keys "0".."3" of PIMA_STATE_MAP are the byte values 48..51
PIMA_STATE_MAP ==
    (48 :> STATE_DISARMED) @@ (49 :> STATE_ARMED_AWAY) @@
    (50 :> STATE_ARMED_HOME) @@ (51 :> STATE_ARMED_NIGHT)

\* dict.get(key, default)
StateMapGet(key, default) ==
    IF key \in DOMAIN PIMA_STATE_MAP THEN PIMA_STATE_MAP[key] ELSE default

----------------------------------------------------------------------------
(* Python values *)

None == <<>>
Some(s) == <<s>>

\* s[i:j] for 0 <= i, with j already resolved to a non-negative index
Slice(s, i, j) ==
    LET hi == IF j > Len(s) THEN Len(s) ELSE j
    IN  IF i >= hi THEN <<>> ELSE SubSeq(s, i + 1, hi)

\* s.startswith(p), s.endswith(p)
StartsWith(s, p) == Len(s) >= Len(p) /\ SubSeq(s, 1, Len(p)) = p
EndsWith(s, p) == Len(s) >= Len(p) /\ SubSeq(s, Len(s) - Len(p) + 1, Len(s)) = p

\* s.find(p): the 1-based index of the first occurrence of p in s, 0 if none
Find(s, p) ==
    LET hits == {i \in 1..(Len(s) - Len(p) + 1) : SubSeq(s, i, i + Len(p) - 1) = p}
    IN  IF hits = {} THEN 0 ELSE CHOOSE i \in hits : \A j \in hits : i <= j

\* p in s
Contains(s, p) == Find(s, p) # 0

\* s.split(sep): the pieces of s between the occurrences of sep, left to right
RECURSIVE Split(_, _)
Split(s, sep) ==
    LET i == Find(s, sep)
    IN  IF i = 0 THEN <<s>>
        ELSE <<SubSeq(s, 1, i - 1)>> \o Split(Slice(s, i - 1 + Len(sep), Len(s)), sep)

\* bytes.decode("ascii", errors="ignore"): bytes above 127 are dropped
IsAscii(b) == b < 128
DecodeAsciiIgnore(data) == SelectSeq(data, IsAscii)

----------------------------------------------------------------------------
(* The command strings *)

CMD_STATUS == <<83, 83, 61, 49>>      \* "SS=1"
CMD_ARM_AWAY == <<65, 82, 61, 49>>    \* "AR=1"
CMD_ARM_HOME == <<65, 82, 61, 50>>    \* "AR=2"
CMD_ARM_NIGHT == <<65, 82, 61, 51>>   \* "AR=3"
CMD_DISARM == <<68, 65, 61, 49>>      \* "DA=1"
CMD_DISCONNECT == <<68, 67, 61, 49>>  \* "DC=1"
PW_PREFIX == <<80, 87, 61>>           \* "PW="
LOGIN_MARKER == <<82, 61, 49>>        \* "R=1"
STATUS_KEY == <<83, 61>>              \* "S="

----------------------------------------------------------------------------
(* Frame codec: PimaProtocol._calculate_crc, _create_command, _parse_response *)

\* bitwise exclusive or of two naturals
BitXor[a \in Nat, b \in Nat] ==
    IF a = 0 THEN b
    ELSE IF b = 0 THEN a
    ELSE ((a + b) % 2) + 2 * BitXor[a \div 2, b \div 2]

\* one shift of the CRC-16/XMODEM register (polynomial 0x1021, 16 bits wide)
CrcShift(crc) ==
    IF crc >= 32768
    THEN BitXor[(crc * 2) % 65536, 4129]
    ELSE (crc * 2) % 65536

CrcShifts[crc \in Nat, n \in Nat] ==
    IF n = 0 THEN crc ELSE CrcShifts[CrcShift(crc), n - 1]

\* crcmod.predefined.mkCrcFun('xmodem'): initial value 0, no reflection, no final xor
CrcFrom[crc \in Nat, data \in Seq(Nat)] ==
    IF data = <<>> THEN crc
    ELSE CrcFrom[CrcShifts[BitXor[crc, Head(data) * 256], 8], Tail(data)]

\* the checksum started from 0xFFFF instead of 0
crc_func_init_ffff(data) == CrcFrom[65535, data]

crc_func(data) == CrcFrom[0, data]

\* crc.to_bytes(2, byteorder="big")
_calculate_crc(data) ==
    LET crc == crc_func(data)
    IN  <<crc \div 256, crc % 256>>

\* command.encode("ascii") is the identity on the byte values of an ASCII string
_create_command(cmd) ==
    LET data == cmd
        crc_data == COMMAND_FLAG \o data
        crc == _calculate_crc(crc_data)
    IN  FRAME_START \o COMMAND_FLAG \o data \o crc \o FRAME_END

\* the slice taken from 2 bytes in when the flag follows START
DataWithCrcAfterFlag(resp) ==
    IF Len(resp) > 2 /\ Slice(resp, 1, 2) = COMMAND_FLAG
    THEN Slice(resp, 2, Len(resp) - 1)
    ELSE Slice(resp, 1, Len(resp) - 1)

\* the slice data_with_crc of _parse_response
DataWithCrc(resp) ==
    IF Len(resp) > 2 /\ Slice(resp, 1, 2) = COMMAND_FLAG
    THEN Slice(resp, 3, Len(resp) - 1)
    ELSE Slice(resp, 1, Len(resp) - 1)

\* _parse_response comparing only the first checksum byte
_parse_response_first_crc_byte(resp) ==
    IF Len(resp) < 6 THEN None
    ELSE IF ~(StartsWith(resp, FRAME_START) /\ EndsWith(resp, FRAME_END)) THEN None
    ELSE LET data_with_crc == DataWithCrc(resp)
         IN  IF Len(data_with_crc) < 2 THEN None
             ELSE LET data == Slice(data_with_crc, 0, Len(data_with_crc) - 2)
                      received_crc == Slice(data_with_crc, Len(data_with_crc) - 2,
                                            Len(data_with_crc))
                      calculated_crc == _calculate_crc(data)
                  IN  IF received_crc[1] # calculated_crc[1] THEN None
                      ELSE Some(DecodeAsciiIgnore(data))

_parse_response(resp) ==
    IF Len(resp) < 6 THEN None
    ELSE IF ~(StartsWith(resp, FRAME_START) /\ EndsWith(resp, FRAME_END)) THEN None
    ELSE LET data_with_crc == DataWithCrc(resp)
         IN  IF Len(data_with_crc) < 2 THEN None
             ELSE LET data == Slice(data_with_crc, 0, Len(data_with_crc) - 2)
                      received_crc == Slice(data_with_crc, Len(data_with_crc) - 2,
                                            Len(data_with_crc))
                      calculated_crc == _calculate_crc(data)
                  IN  IF received_crc # calculated_crc THEN None
                      ELSE Some(DecodeAsciiIgnore(data))

\* a panel-originated frame: START | PAYLOAD | CRC16(PAYLOAD) | END
ResponseFrame(payload) ==
    FRAME_START \o payload \o _calculate_crc(payload) \o FRAME_END

\* a log record: its level, the line of the _LOGGER call and the rendered
\* arguments of the format string
Record(level, line, args) == [level |-> level, line |-> line, args |-> args]

\* "%s" of an Optional[str]
Str(x) == IF x = None THEN <<78, 111, 110, 101>> ELSE x[1]

\* "%d" of a number below 10
Digit(n) == <<48 + n>>

\* "%s" of self.host and self.port, here "10.0.0.2" and DEFAULT_PORT
host == <<49, 48, 46, 48, 46, 48, 46, 50>>
port == <<49, 48, 49, 53, 48>>

\* "%s" of a socket exception, here "timed out"
ErrText == <<116, 105, 109, 101, 100, 32, 111, 117, 116>>

HexDigit(n) == IF n < 10 THEN 48 + n ELSE 87 + n

\* bytes.hex(): two lowercase hexadecimal digits per byte
Hex(b) ==
    [i \in 1..(2 * Len(b)) |->
        HexDigit(IF i % 2 = 1 THEN b[(i + 1) \div 2] \div 16 ELSE b[i \div 2] % 16)]

\* what _create_command(cmd) logs
CreateCommandLog(cmd) == <<Record("debug", 61, <<cmd, Hex(_create_command(cmd))>>)>>

\* what _parse_response(resp) logs
ParseResponseLog(resp) ==
    <<Record("debug", 71, <<Hex(resp)>>)>> \o
    ( IF Len(resp) < 6 THEN <<Record("debug", 74, <<>>)>>
      ELSE IF ~(StartsWith(resp, FRAME_START) /\ EndsWith(resp, FRAME_END))
      THEN <<Record("debug", 78, <<>>)>>
      ELSE IF Len(DataWithCrc(resp)) < 2 THEN <<Record("debug", 90, <<>>)>>
      ELSE IF _parse_response(resp) = None THEN <<Record("warning", 98, <<>>)>>
      ELSE <<Record("debug", 102, <<_parse_response(resp)[1]>>)>> )

----------------------------------------------------------------------------
(* The codec applied to one input: frame a payload, possibly damage the    *)
(* frame on the wire, decode it.                                           *)

\* byte values the framed payloads are drawn from: "1", "=", "S", a
\* non-ASCII byte and the flag byte
PayloadBytes == {49, 61, 83, 128, 255}

RECURSIVE SeqsUpTo(_, _)
SeqsUpTo(S, n) ==
    IF n = 0 THEN {<<>>}
    ELSE LET shorter == SeqsUpTo(S, n - 1)
         IN  shorter \cup {Append(s, b) : s \in {x \in shorter : Len(x) = n - 1}, b \in S}

Payloads == SeqsUpTo(PayloadBytes, MaxPayloadLen)

\* inputs the checksum is also taken of: the ASCII digits "123456789" and the
\* single byte 0x01
ChecksumVectors == {<<49, 50, 51, 52, 53, 54, 55, 56, 57>>, <<1>>}

\* the damages a frame may suffer: one checksum byte altered, a sentinel
\* overwritten, the frame cut to 5 bytes
Tampers == {"crc_hi", "crc_lo", "start", "end", "truncate"}

AlterByte(s, i) == [s EXCEPT ![i] = (s[i] + 1) % 256]

Tampered(frame, how) ==
    CASE how = "crc_hi"   -> AlterByte(frame, Len(frame) - 2)
      [] how = "crc_lo"   -> AlterByte(frame, Len(frame) - 1)
      [] how = "start"    -> [frame EXCEPT ![1] = 0]
      [] how = "end"      -> [frame EXCEPT ![Len(frame)] = 0]
      [] how = "truncate" -> Slice(frame, 0, 5)

CodecIdle ==
    /\ cstage = "idle"
    /\ cin = <<>>
    /\ ckind = "none"
    /\ raw = <<>>
    /\ parsed = None

\* _calculate_crc applied to cin
Checksum ==
    /\ cstage = "input"
    /\ raw' = _calculate_crc(cin)
    /\ ckind' = "checksum"
    /\ cstage' = "checksummed"
    /\ UNCHANGED <<cin, parsed>>
    /\ UNCHANGED <<ctlVars, pairVars, hostVars>>

\* the host frames the ASCII command cin
Encode ==
    /\ cstage = "input"
    /\ \A i \in 1..Len(cin) : IsAscii(cin[i])
    /\ raw' = _create_command(cin)
    /\ logged' = CreateCommandLog(cin)
    /\ ckind' = "command"
    /\ cstage' = "framed"
    /\ UNCHANGED <<cin, parsed>>
    /\ UNCHANGED <<workerVars, pairVars, hostVars>>

\* the panel frames the payload cin
Respond ==
    /\ cstage = "input"
    /\ raw' = ResponseFrame(cin)
    /\ ckind' = "response"
    /\ cstage' = "framed"
    /\ UNCHANGED <<cin, parsed>>
    /\ UNCHANGED <<ctlVars, pairVars, hostVars>>

\* a frame whose byte after START is the flag, followed by one more byte
\* before the payload: the shape _parse_response reads as "db ff"
RespondFlagged ==
    /\ cstage = "input"
    /\ \E b \in PayloadBytes :
         raw' = FRAME_START \o COMMAND_FLAG \o <<b>> \o cin \o _calculate_crc(cin)
                \o FRAME_END
    /\ ckind' = "flagged"
    /\ cstage' = "framed"
    /\ UNCHANGED <<cin, parsed>>
    /\ UNCHANGED <<ctlVars, pairVars, hostVars>>

Tamper ==
    /\ cstage = "framed"
    /\ \E how \in Tampers : raw' = Tampered(raw, how)
    /\ cstage' = "tampered"
    /\ UNCHANGED <<cin, ckind, parsed>>
    /\ UNCHANGED <<ctlVars, pairVars, hostVars>>

Decode ==
    /\ cstage \in {"framed", "tampered"}
    /\ parsed' = _parse_response(raw)
    /\ logged' = ParseResponseLog(raw)
    /\ cstage' = IF cstage = "framed" THEN "decoded" ELSE "decoded_tampered"
    /\ UNCHANGED <<cin, ckind, raw>>
    /\ UNCHANGED <<workerVars, pairVars, hostVars>>

----------------------------------------------------------------------------
(* The facade and the panel *)

Operations == {"getStatus", "armAway", "armHome", "armNight", "disarm"}

\* the command string each async_* method hands to _connect_and_execute
CommandOf(o) ==
    CASE o = "getStatus" -> CMD_STATUS
      [] o = "armAway"   -> CMD_ARM_AWAY
      [] o = "armHome"   -> CMD_ARM_HOME
      [] o = "armNight"  -> CMD_ARM_NIGHT
      [] o = "disarm"    -> CMD_DISARM

\* every action looking for any status answer, "S=", instead of its own
MarkerOfAnyStatus(o) == <<83, 61>>

\* the marker each arm/disarm method looks for in the response
MarkerOf(o) ==
    CASE o = "armAway"   -> <<83, 61, 49>>    \* "S=1"
      [] o = "armHome"   -> <<83, 61, 50>>    \* "S=2"
      [] o = "armNight"  -> <<83, 61, 51>>    \* "S=3"
      [] o = "disarm"    -> <<83, 61, 48>>    \* "S=0"

\* self.alarm_code, here "1234"
alarm_code == <<49, 50, 51, 52>>

\* f"PW={self.alarm_code}"
LoginCommand == PW_PREFIX \o alarm_code

\* what sock.recv(1024) may return to the login frame: an accepting answer,
\* a refusing one, a frame with a damaged checksum, nothing (peer closed),
\* and a well-formed frame whose payload has no ASCII byte
LoginResponses ==
    { ResponseFrame(<<82, 61, 49>>),                      \* "R=1"
      ResponseFrame(<<82, 61, 48>>),                      \* "R=0"
      Tampered(ResponseFrame(<<82, 61, 49>>), "crc_lo"),
      <<>>,
      ResponseFrame(<<128, 129>>) }

\* payloads the panel may answer a command with
CommandPayloads ==
    { <<83, 61, 48>>, <<83, 61, 49>>, <<83, 61, 50>>, <<83, 61, 51>>,  \* "S=0".."S=3"
      <<83, 61, 57>>,                                                  \* "S=9"
      <<83, 61>>,                                                      \* "S="
      <<83, 61, 83, 61, 49>>,                                          \* "S=S=1"
      <<79, 75>>,                                                      \* "OK"
      <<128, 129>> }                                                   \* no ASCII byte

\* what sock.recv(1024) may return to the command frame
CommandResponses ==
    {ResponseFrame(p) : p \in CommandPayloads}
        \cup {Tampered(ResponseFrame(<<83, 61, 49>>), "crc_hi")}

\* the login test without the "R=1" check
LoginFailedUndecodedOnly(login_result) == login_result = None

\* "if not login_result or 'R=1' not in login_result"
LoginFailed(login_result) ==
    \/ login_result = None
    \/ login_result[1] = <<>>
    \/ ~Contains(login_result[1], LOGIN_MARKER)

\* the value async_get_status computes from the response, or the exception
\* it ends with
GetStatusOutcome(resp) ==
    IF resp = None \/ resp[1] = <<>>
    THEN [raised |-> FALSE, value |-> "None"]
    ELSE IF Contains(resp[1], STATUS_KEY)
         THEN LET pieces == Split(resp[1], STATUS_KEY)
              IN  IF pieces[2] = <<>>
                  THEN [raised |-> TRUE, value |-> "IndexError"]
                  ELSE [raised |-> FALSE, value |-> StateMapGet(pieces[2][1], "unknown")]
         ELSE [raised |-> FALSE, value |-> "unknown"]

\* "response is not None and 'S=<n>' in response"
ArmOutcome(o, resp) ==
    IF resp # None /\ Contains(resp[1], MarkerOf(o)) THEN "True" ELSE "False"

----------------------------------------------------------------------------
(* PimaProtocol._connect_and_execute, one statement group per action *)

callVars == <<op, command>>
facadeVars == <<response, ret, raised>>
localVars == <<cmd_response, result>>

\* the records of _create_command for each command the engine frames, and
\* of _parse_response for each answer the panel may give
CreateCommandLogs ==
    [cmd \in {LoginCommand, CMD_DISCONNECT} \cup {CommandOf(o) : o \in Operations} |->
        CreateCommandLog(cmd)]

ParseResponseLogs ==
    [resp \in LoginResponses \cup CommandResponses |-> ParseResponseLog(resp)]

\* a step of the worker that hands these records to _LOGGER
LogWith(kind, records) ==
    /\ events' = Append(events, <<kind, attempt>>)
    /\ logged' = records

\* a step of the worker that logs nothing
Log(kind) == LogWith(kind, <<>>)

\* a socket object: whether it is open and connected, the iteration that
\* created it, the frames sock.send wrote and the bytes the first
\* sock.recv returned (None before that)
NewSocket == [open |-> TRUE, connected |-> FALSE, att |-> attempt,
              sent |-> <<>>, login_response |-> None]

CtlInit ==
    /\ pc = "idle"
    /\ op = "none"
    /\ command = <<>>
    /\ attempt = 0
    /\ sock = 0
    /\ socks = <<>>
    /\ udp = 0
    /\ cmd_response = None
    /\ result = None
    /\ response = None
    /\ ret = "pending"
    /\ raised = FALSE
    /\ events = <<>>
    /\ logged = <<>>

\* async_*: run_in_executor(None, self._connect_and_execute, <command>)
Invoke ==
    /\ pc = "idle"
    /\ \E o \in Operations :
         /\ op' = o
         /\ command' = CommandOf(o)
    /\ pc' = "loop"
    /\ UNCHANGED <<attempt, sock, socks, udp, localVars, facadeVars, events, logged, codecVars, pairVars, hostVars>>

\* the loop entered once more than retry_attempts allows
AttemptStartInclusive ==
    /\ pc = "loop"
    /\ attempt <= RETRY_ATTEMPTS
    /\ attempt' = attempt + 1
    /\ sock' = 0
    /\ events' = Append(events, <<"attempt", attempt + 1>>)
    /\ logged' = <<Record("info", 126,
                          <<Digit(attempt + 1), Digit(RETRY_ATTEMPTS), command>>)>>
    /\ pc' = "knock1"
    /\ UNCHANGED <<callVars, socks, udp, localVars, facadeVars, codecVars, pairVars, hostVars>>

\* for attempt in range(self.retry_attempts): sock = None
AttemptStart ==
    /\ pc = "loop"
    /\ attempt < RETRY_ATTEMPTS
    /\ attempt' = attempt + 1
    /\ sock' = 0
    /\ events' = Append(events, <<"attempt", attempt + 1>>)
    /\ logged' = <<Record("info", 126,
                          <<Digit(attempt + 1), Digit(RETRY_ATTEMPTS), command>>)>>
    /\ pc' = "knock1"
    /\ UNCHANGED <<callVars, socks, udp, localVars, facadeVars, codecVars, pairVars, hostVars>>

\* the loop is exhausted: return None
Exhausted ==
    /\ pc = "loop"
    /\ attempt >= RETRY_ATTEMPTS
    /\ response' = None
    /\ sock' = 0
    /\ LogWith("exhausted", <<Record("error", 179, <<Digit(RETRY_ATTEMPTS), command>>)>>)
    /\ pc' = "returned"
    /\ UNCHANGED <<callVars, attempt, socks, udp, localVars, ret, raised, codecVars, pairVars, hostVars>>

\* _send_udp_knocks going on to the second knock when the first sendto raised
Knock1ErrorSwallowed ==
    /\ pc = "knock1"
    /\ udp' = udp + 1
    /\ \/ LogWith("knock1", <<Record("debug", 111, <<host, port>>)>>) /\ pc' = "knock2"
       \/ LogWith("knock1_error", <<Record("debug", 111, <<host, port>>),
                                 Record("error", 118, <<ErrText>>)>>) /\ pc' = "knock2"
    /\ UNCHANGED <<callVars, attempt, sock, socks, localVars, facadeVars, codecVars, pairVars, hostVars>>

\* _send_udp_knocks: the UDP socket is created and the first knock sent,
\* or sendto raises and the exception leaves the function
Knock1 ==
    /\ pc = "knock1"
    /\ udp' = udp + 1
    /\ \/ LogWith("knock1", <<Record("debug", 111, <<host, port>>)>>) /\ pc' = "knock2"
       \/ LogWith("knock1_error", <<Record("debug", 111, <<host, port>>),
                                 Record("error", 118, <<ErrText>>)>>) /\ pc' = "except"
    /\ UNCHANGED <<callVars, attempt, sock, socks, localVars, facadeVars, codecVars, pairVars, hostVars>>

\* the second knock followed at once by the TCP socket, with no settle delay
Knock2NoSettle ==
    /\ pc = "knock2"
    /\ \/ Log("knock2") /\ udp' = udp - 1 /\ pc' = "socket"
       \/ LogWith("knock2_error", <<Record("error", 118, <<ErrText>>)>>) /\ udp' = udp /\ pc' = "except"
    /\ UNCHANGED <<callVars, attempt, sock, socks, localVars, facadeVars, codecVars, pairVars, hostVars>>

\* the second knock is sent and the UDP socket closed, or sendto raises
Knock2 ==
    /\ pc = "knock2"
    /\ \/ Log("knock2") /\ udp' = udp - 1 /\ pc' = "settle"
       \/ LogWith("knock2_error", <<Record("error", 118, <<ErrText>>)>>) /\ udp' = udp /\ pc' = "except"
    /\ UNCHANGED <<callVars, attempt, sock, socks, localVars, facadeVars, codecVars, pairVars, hostVars>>

\* time.sleep(1)
Settle ==
    /\ pc = "settle"
    /\ Log("settle")
    /\ pc' = "socket"
    /\ UNCHANGED <<callVars, attempt, sock, socks, udp, localVars, facadeVars, codecVars, pairVars, hostVars>>

\* sock = socket.socket(...); sock.settimeout(self.timeout)
TcpSocket ==
    /\ pc = "socket"
    /\ \/ /\ socks' = Append(socks, NewSocket)
          /\ sock' = Len(socks) + 1
          /\ Log("socket")
          /\ pc' = "connect"
       \/ /\ UNCHANGED <<sock, socks>>
          /\ Log("socket_error")
          /\ pc' = "except"
    /\ UNCHANGED <<callVars, attempt, udp, localVars, facadeVars, codecVars, pairVars, hostVars>>

\* sock.connect((self.host, self.port))
Connect ==
    /\ pc = "connect"
    /\ \/ /\ socks' = [socks EXCEPT ![sock].connected = TRUE]
          /\ Log("connect")
          /\ pc' = "send_login"
       \/ /\ UNCHANGED socks
          /\ Log("connect_error")
          /\ pc' = "except"
    /\ UNCHANGED <<callVars, attempt, sock, udp, localVars, facadeVars, codecVars, pairVars, hostVars>>

\* sock.send(frame) on the current socket
Sent(frame) == socks' = [socks EXCEPT ![sock].sent = Append(@, frame)]

\* login_cmd = self._create_command(f"PW={self.alarm_code}"); sock.send(login_cmd)
SendLogin ==
    /\ pc = "send_login"
    /\ \/ /\ Sent(_create_command(LoginCommand))
          /\ LogWith("send_login", CreateCommandLogs[LoginCommand])
          /\ pc' = "recv_login"
       \/ /\ UNCHANGED socks
          /\ LogWith("send_login_error", CreateCommandLogs[LoginCommand])
          /\ pc' = "except"
    /\ UNCHANGED <<callVars, attempt, sock, udp, localVars, facadeVars, codecVars, pairVars, hostVars>>

\* sock.recv with no timeout on a panel that never answers: the call never
\* returns
RecvLoginNeverReturns ==
    /\ pc = "recv_login"
    /\ FALSE
    /\ UNCHANGED vars

\* login_response = sock.recv(1024); login_result = self._parse_response(...);
\* on a failed login: continue
RecvLogin ==
    /\ pc = "recv_login"
    /\ \/ \E bytes \in LoginResponses :
            LET login_result == _parse_response(bytes)
            IN  /\ socks' = [socks EXCEPT ![sock].login_response = Some(bytes)]
                /\ IF LoginFailed(login_result)
                   THEN /\ LogWith("login_failed",
                                   ParseResponseLogs[bytes]
                                   \o <<Record("error", 150, <<Str(login_result)>>)>>)
                        /\ pc' = "loop"
                   ELSE /\ LogWith("login_ok", ParseResponseLogs[bytes])
                        /\ pc' = "send_cmd"
       \/ /\ UNCHANGED socks
          /\ Log("recv_login_error")
          /\ pc' = "except"
    /\ UNCHANGED <<callVars, attempt, sock, udp, localVars, facadeVars, codecVars, pairVars, hostVars>>

\* actual_cmd = self._create_command(command); sock.send(actual_cmd)
SendCmd ==
    /\ pc = "send_cmd"
    /\ \/ /\ Sent(_create_command(command))
          /\ LogWith("send_cmd", CreateCommandLogs[command])
          /\ pc' = "recv_cmd"
       \/ /\ UNCHANGED socks
          /\ LogWith("send_cmd_error", CreateCommandLogs[command])
          /\ pc' = "except"
    /\ UNCHANGED <<callVars, attempt, sock, udp, localVars, facadeVars, codecVars, pairVars, hostVars>>

\* response = sock.recv(1024); result = self._parse_response(response)
RecvCmd ==
    /\ pc = "recv_cmd"
    /\ \/ \E bytes \in CommandResponses :
            /\ cmd_response' = Some(bytes)
            /\ result' = _parse_response(bytes)
            /\ LogWith("recv_cmd", ParseResponseLogs[bytes])
            /\ pc' = "send_dc"
       \/ /\ UNCHANGED localVars
          /\ Log("recv_cmd_error")
          /\ pc' = "except"
    /\ UNCHANGED <<callVars, attempt, sock, socks, udp, facadeVars, codecVars, pairVars, hostVars>>

\* disconnect_cmd = self._create_command("DC=1"); sock.send(disconnect_cmd)
SendDc ==
    /\ pc = "send_dc"
    /\ \/ /\ Sent(_create_command(CMD_DISCONNECT))
          /\ LogWith("send_dc", CreateCommandLogs[CMD_DISCONNECT])
          /\ pc' = "close"
       \/ /\ UNCHANGED socks
          /\ LogWith("send_dc_error", CreateCommandLogs[CMD_DISCONNECT])
          /\ pc' = "except"
    /\ UNCHANGED <<callVars, attempt, sock, udp, localVars, facadeVars, codecVars, pairVars, hostVars>>

\* the success path without its return: the loop goes on
CloseWithoutReturn ==
    /\ pc = "close"
    /\ socks' = [socks EXCEPT ![sock].open = FALSE]
    /\ response' = result
    /\ LogWith("return", <<Record("info", 165, <<Str(result)>>)>>)
    /\ pc' = "loop"
    /\ UNCHANGED <<callVars, attempt, sock, udp, localVars, ret, raised, codecVars, pairVars, hostVars>>

\* sock.close(); return result
CloseReturn ==
    /\ pc = "close"
    /\ socks' = [socks EXCEPT ![sock].open = FALSE]
    /\ response' = result
    /\ sock' = 0
    /\ LogWith("return", <<Record("info", 165, <<Str(result)>>)>>)
    /\ pc' = "returned"
    /\ UNCHANGED <<callVars, attempt, udp, localVars, ret, raised, codecVars, pairVars, hostVars>>

\* "if attempt < self.retry_attempts - 1" on the loop index attempt - 1
SleepsAfterFailure == attempt - 1 < RETRY_ATTEMPTS - 1

\* except Exception: close the socket if there is one; sleep unless this
\* was the last iteration.  The locals response and result of the abandoned
\* iteration are never read again before they are assigned: they are
\* forgotten here.
Except ==
    /\ pc = "except"
    /\ socks' = IF sock # 0 THEN [socks EXCEPT ![sock].open = FALSE] ELSE socks
    /\ cmd_response' = None
    /\ result' = None
    /\ IF SleepsAfterFailure
       THEN pc' = "backoff"
       ELSE pc' = "loop"
    /\ LogWith("except", <<Record("error", 169, <<Digit(attempt), ErrText>>)>>)
    /\ UNCHANGED <<callVars, attempt, sock, udp, facadeVars, codecVars, pairVars, hostVars>>

\* time.sleep(2)
Backoff ==
    /\ pc = "backoff"
    /\ Log("backoff")
    /\ pc' = "loop"
    /\ UNCHANGED <<callVars, attempt, sock, socks, udp, localVars, facadeVars, codecVars, pairVars, hostVars>>

\* async_get_status after the executor call
GetStatusReturn ==
    /\ pc = "returned"
    /\ op = "getStatus"
    /\ LET out == GetStatusOutcome(response)
       IN  ret' = out.value /\ raised' = out.raised
    /\ pc' = "done"
    /\ UNCHANGED <<callVars, attempt, sock, socks, udp, localVars, response, events,
                   logged, codecVars, pairVars, hostVars>>

\* async_arm_away, async_arm_home, async_arm_night, async_disarm after the
\* executor call
ArmReturn ==
    /\ pc = "returned"
    /\ op # "getStatus"
    /\ ret' = ArmOutcome(op, response)
    /\ pc' = "done"
    /\ UNCHANGED <<callVars, attempt, sock, socks, udp, localVars, response, raised,
                   events, logged, codecVars, pairVars, hostVars>>

\* A socket object no variable refers to any more is closed when the
\* interpreter collects it: at once, later, or not while the program runs.
CollectTcp ==
    /\ \E i \in 1..Len(socks) :
         /\ i # sock
         /\ socks[i].open
         /\ socks' = [socks EXCEPT ![i].open = FALSE]
    /\ UNCHANGED <<pc, callVars, attempt, sock, udp, localVars, facadeVars, events,
                   logged, codecVars, pairVars, hostVars>>

CollectUdp ==
    /\ udp > 0
    /\ pc # "knock2"
    /\ udp' = udp - 1
    /\ UNCHANGED <<pc, callVars, attempt, sock, socks, localVars, facadeVars, events,
                   logged, codecVars, pairVars, hostVars>>

----------------------------------------------------------------------------
(* Two invocations of _connect_and_execute on one PimaProtocol instance,   *)
(* each in its own executor thread (run_in_executor).  The instance        *)
(* attributes are only read; sock, response and result are locals of each  *)
(* invocation.                                                             *)

Calls == {1, 2}

\* the commands the two invocations are called with
PairCommands == {CMD_STATUS, CMD_DISARM}

\* what the panel may answer on a connection: login accepted or refused,
\* then one of two status answers
PairLoginResponses == {ResponseFrame(<<82, 61, 49>>), ResponseFrame(<<82, 61, 48>>)}
PairCommandResponses == {ResponseFrame(<<83, 61, 48>>), ResponseFrame(<<83, 61, 49>>)}

\* the socket object invocation w creates in its iteration k
SockId(w, k) == (w - 1) * RETRY_ATTEMPTS + k

\* a socket: the invocation that created it (0: not created, or closed and
\* gone), whether it is open, whether an invocation other than its creator
\* ever sent or read on it, and the command response the panel delivered on
\* it
NoConn == [owner |-> 0, open |-> FALSE, foreign |-> FALSE, rcvd |-> None]

PairIdle ==
    /\ calls = [w \in Calls |->
                  [pc |-> "idle", command |-> <<>>, attempt |-> 0, sock |-> 0,
                   cmd_response |-> None, result |-> None, response |-> None]]
    /\ conns = [i \in 1..(2 * RETRY_ATTEMPTS) |-> NoConn]

\* invocation w uses its local sock for a send or a recv
UsedBy(w) ==
    [conns EXCEPT ![calls[w].sock].foreign = @ \/ conns[calls[w].sock].owner # w]

\* the socket of invocation w closed
ClosedBy(w) ==
    [conns EXCEPT ![calls[w].sock] = [NoConn EXCEPT !.foreign = conns[calls[w].sock].foreign]]

PInvoke(w) ==
    /\ calls[w].pc = "idle"
    /\ \E c \in PairCommands :
         calls' = [calls EXCEPT ![w].command = c, ![w].pc = "loop"]
    /\ UNCHANGED <<conns, ctlVars, codecVars, hostVars>>

\* for attempt in range(self.retry_attempts): sock = None
PAttemptStart(w) ==
    /\ calls[w].pc = "loop"
    /\ calls[w].attempt < RETRY_ATTEMPTS
    /\ calls' = [calls EXCEPT ![w].attempt = @ + 1, ![w].sock = 0, ![w].pc = "wake"]
    /\ UNCHANGED <<conns, ctlVars, codecVars, hostVars>>

\* the loop is exhausted: return None
PExhausted(w) ==
    /\ calls[w].pc = "loop"
    /\ calls[w].attempt >= RETRY_ATTEMPTS
    /\ calls' = [calls EXCEPT ![w].response = None, ![w].pc = "returned"]
    /\ UNCHANGED <<conns, ctlVars, codecVars, hostVars>>

\* self._send_udp_knocks(); time.sleep(1): on a UDP socket of its own
PWake(w) ==
    /\ calls[w].pc = "wake"
    /\ \E next \in {"socket", "except"} : calls' = [calls EXCEPT ![w].pc = next]
    /\ UNCHANGED <<conns, ctlVars, codecVars, hostVars>>

\* sock = socket.socket(...); sock.settimeout(...); sock.connect(...)
PConnect(w) ==
    /\ calls[w].pc = "socket"
    /\ LET s == SockId(w, calls[w].attempt)
       IN  \/ /\ conns' = [conns EXCEPT ![s] = [NoConn EXCEPT !.owner = w, !.open = TRUE]]
              /\ \E next \in {"send_login", "except"} :
                   calls' = [calls EXCEPT ![w].sock = s, ![w].pc = next]
           \/ /\ UNCHANGED conns
              /\ calls' = [calls EXCEPT ![w].pc = "except"]
    /\ UNCHANGED <<ctlVars, codecVars, hostVars>>

\* sock.send(login_cmd)
PSendLogin(w) ==
    /\ calls[w].pc = "send_login"
    /\ \/ conns' = UsedBy(w) /\ calls' = [calls EXCEPT ![w].pc = "recv_login"]
       \/ UNCHANGED conns /\ calls' = [calls EXCEPT ![w].pc = "except"]
    /\ UNCHANGED <<ctlVars, codecVars, hostVars>>

\* login_response = sock.recv(1024); on a failed login: continue
PRecvLogin(w) ==
    /\ calls[w].pc = "recv_login"
    /\ \/ \E bytes \in PairLoginResponses :
            /\ conns' = UsedBy(w)
            /\ calls' = [calls EXCEPT ![w].pc = IF LoginFailed(_parse_response(bytes))
                                                THEN "loop" ELSE "send_cmd"]
       \/ UNCHANGED conns /\ calls' = [calls EXCEPT ![w].pc = "except"]
    /\ UNCHANGED <<ctlVars, codecVars, hostVars>>

\* sock.send(actual_cmd)
PSendCmd(w) ==
    /\ calls[w].pc = "send_cmd"
    /\ \/ conns' = UsedBy(w) /\ calls' = [calls EXCEPT ![w].pc = "recv_cmd"]
       \/ UNCHANGED conns /\ calls' = [calls EXCEPT ![w].pc = "except"]
    /\ UNCHANGED <<ctlVars, codecVars, hostVars>>

\* recv with response and result kept in attributes of the instance, which
\* both invocations share, instead of locals
PRecvCmdShared(w) ==
    /\ calls[w].pc = "recv_cmd"
    /\ \/ \E bytes \in PairCommandResponses :
            /\ conns' = [UsedBy(w) EXCEPT ![calls[w].sock].rcvd = Some(bytes)]
            /\ calls' = [v \in Calls |->
                           [calls[v] EXCEPT !.cmd_response = Some(bytes),
                                            !.result = _parse_response(bytes),
                                            !.pc = IF v = w THEN "send_dc" ELSE @]]
       \/ UNCHANGED conns /\ calls' = [calls EXCEPT ![w].pc = "except"]
    /\ UNCHANGED <<ctlVars, codecVars, hostVars>>

\* response = sock.recv(1024); result = self._parse_response(response)
PRecvCmd(w) ==
    /\ calls[w].pc = "recv_cmd"
    /\ \/ \E bytes \in PairCommandResponses :
            /\ conns' = [UsedBy(w) EXCEPT ![calls[w].sock].rcvd = Some(bytes)]
            /\ calls' = [calls EXCEPT ![w].cmd_response = Some(bytes),
                                      ![w].result = _parse_response(bytes),
                                      ![w].pc = "send_dc"]
       \/ UNCHANGED conns /\ calls' = [calls EXCEPT ![w].pc = "except"]
    /\ UNCHANGED <<ctlVars, codecVars, hostVars>>

\* sock.send(disconnect_cmd)
PSendDc(w) ==
    /\ calls[w].pc = "send_dc"
    /\ \/ conns' = UsedBy(w) /\ calls' = [calls EXCEPT ![w].pc = "close"]
       \/ UNCHANGED conns /\ calls' = [calls EXCEPT ![w].pc = "except"]
    /\ UNCHANGED <<ctlVars, codecVars, hostVars>>

\* sock.close(); return result
PCloseReturn(w) ==
    /\ calls[w].pc = "close"
    /\ conns' = ClosedBy(w)
    /\ calls' = [calls EXCEPT ![w].response = calls[w].result, ![w].pc = "returned"]
    /\ UNCHANGED <<ctlVars, codecVars, hostVars>>

\* except Exception: close the socket if there is one; sleep unless this was
\* the last iteration
PExcept(w) ==
    /\ calls[w].pc = "except"
    /\ conns' = IF calls[w].sock # 0 THEN ClosedBy(w) ELSE conns
    /\ calls' = [calls EXCEPT ![w].cmd_response = None,
                              ![w].result = None,
                              ![w].pc = IF calls[w].attempt - 1 < RETRY_ATTEMPTS - 1
                                        THEN "backoff" ELSE "loop"]
    /\ UNCHANGED <<ctlVars, codecVars, hostVars>>

\* time.sleep(2)
PBackoff(w) ==
    /\ calls[w].pc = "backoff"
    /\ calls' = [calls EXCEPT ![w].pc = "loop"]
    /\ UNCHANGED <<conns, ctlVars, codecVars, hostVars>>

----------------------------------------------------------------------------
(* The callers of the facade: the coordinator's scheduled poll and the     *)
(* entity's actions.                                                       *)

\* the values coordinator.data may hold before a call: nothing yet, or the
\* state a poll or an entity action stored
PriorData ==
    {None} \cup {Some(s) : s \in {STATE_DISARMED, STATE_ARMED_AWAY, STATE_ARMED_HOME,
                                  STATE_ARMED_NIGHT, "unknown"}}

\* what _connect_and_execute may return: None, or the decoding of a command
\* response
ControllerResults == {None} \cup {_parse_response(b) : b \in CommandResponses}

HostIdle ==
    /\ coordinator_data = None
    /\ last_update_success = TRUE
    /\ writes = 0

\* the facade is called and the executor call returns
ExecutorResult ==
    /\ pc = "idle"
    /\ \E o \in Operations :
         /\ op' = o
         /\ command' = CommandOf(o)
    /\ response' \in ControllerResults
    /\ pc' = "returned"
    /\ UNCHANGED <<attempt, sock, socks, udp, localVars, ret, raised, events, logged,
                   codecVars, pairVars, hostVars>>

\* _async_update_data without the "if status is None" test
UpdateDataStoresNone ==
    /\ pc = "done"
    /\ op = "getStatus"
    /\ IF raised
       THEN /\ last_update_success' = FALSE
            /\ UNCHANGED coordinator_data
       ELSE /\ last_update_success' = TRUE
            /\ coordinator_data' = Some(ret)
    /\ pc' = "finished"
    /\ UNCHANGED <<callVars, attempt, sock, socks, udp, localVars, facadeVars, events,
                   logged, codecVars, pairVars, writes>>

\* _async_update_data after async_get_status: UpdateFailed for a None status
\* and for any exception, else {"state": status}, which DataUpdateCoordinator
\* stores; after UpdateFailed it keeps the data it had
UpdateData ==
    /\ pc = "done"
    /\ op = "getStatus"
    /\ IF raised \/ ret = "None"
       THEN /\ last_update_success' = FALSE
            /\ UNCHANGED coordinator_data
       ELSE /\ last_update_success' = TRUE
            /\ coordinator_data' = Some(ret)
    /\ pc' = "finished"
    /\ UNCHANGED <<callVars, attempt, sock, socks, udp, localVars, facadeVars, events,
                   logged, codecVars, pairVars, writes>>

\* an entity action after the facade call: "if success:" store the state
\* and write it, else log an error
EntityAction(o, state) ==
    /\ pc = "done"
    /\ op = o
    /\ IF ret = "True"
       THEN /\ coordinator_data' = Some(state)
            /\ writes' = writes + 1
       ELSE UNCHANGED <<coordinator_data, writes>>
    /\ pc' = "finished"
    /\ UNCHANGED <<callVars, attempt, sock, socks, udp, localVars, facadeVars, events,
                   logged, codecVars, pairVars, last_update_success>>

async_alarm_disarm ==
    /\ op = "disarm"
    /\ EntityAction("disarm", "disarmed")

\* the action storing its state whatever the facade returned
async_alarm_arm_away_unconditional ==
    /\ pc = "done"
    /\ op = "armAway"
    /\ coordinator_data' = Some("armed_away")
    /\ writes' = writes + 1
    /\ pc' = "finished"
    /\ UNCHANGED <<callVars, attempt, sock, socks, udp, localVars, facadeVars, events,
                   logged, codecVars, pairVars, last_update_success>>

async_alarm_arm_away ==
    /\ op = "armAway"
    /\ EntityAction("armAway", "armed_away")

async_alarm_arm_home ==
    /\ op = "armHome"
    /\ EntityAction("armHome", "armed_home")

async_alarm_arm_night ==
    /\ op = "armNight"
    /\ EntityAction("armNight", "armed_night")

----------------------------------------------------------------------------
(* Specifications *)

Init == CtlInit /\ CodecIdle /\ PairIdle /\ HostIdle

Next ==
    \/ Invoke
    \/ AttemptStart
    \/ Exhausted
    \/ Knock1
    \/ Knock2
    \/ Settle
    \/ TcpSocket
    \/ Connect
    \/ SendLogin
    \/ RecvLogin
    \/ SendCmd
    \/ RecvCmd
    \/ SendDc
    \/ CloseReturn
    \/ Except
    \/ Backoff
    \/ GetStatusReturn
    \/ ArmReturn
    \/ CollectTcp
    \/ CollectUdp

Spec == Init /\ [][Next]_vars

\* the steps of the executor thread that runs _connect_and_execute
Worker ==
    \/ AttemptStart
    \/ Exhausted
    \/ Knock1
    \/ Knock2
    \/ Settle
    \/ TcpSocket
    \/ Connect
    \/ SendLogin
    \/ RecvLogin
    \/ SendCmd
    \/ RecvCmd
    \/ SendDc
    \/ CloseReturn
    \/ Except
    \/ Backoff

\* one invocation from the call to the facade's return; the interpreter's
\* collection of unreferenced sockets, which no step of the thread reads,
\* is left out
NextLive ==
    \/ Invoke
    \/ AttemptStart
    \/ Exhausted
    \/ Knock1
    \/ Knock2
    \/ Settle
    \/ TcpSocket
    \/ Connect
    \/ SendLogin
    \/ RecvLogin
    \/ SendCmd
    \/ RecvCmd
    \/ SendDc
    \/ CloseReturn
    \/ Except
    \/ Backoff
    \/ GetStatusReturn
    \/ ArmReturn

\* Every socket call has a timeout (settimeout at lines 109 and 139) and every
\* sleep is finite, so the thread always takes its next step.
SpecLive == Init /\ [][NextLive]_vars /\ WF_vars(Worker)

InitCodec ==
    /\ CtlInit
    /\ PairIdle
    /\ HostIdle
    /\ cstage = "input"
    /\ cin \in Payloads \cup ChecksumVectors
    /\ ckind = "none"
    /\ raw = <<>>
    /\ parsed = None

NextCodec ==
    \/ Checksum
    \/ Encode
    \/ Respond
    \/ RespondFlagged
    \/ Tamper
    \/ Decode

SpecCodec == InitCodec /\ [][NextCodec]_vars

\* the executor threads of the two invocations run interleaved
NextPair ==
    \/ \E w \in Calls : PInvoke(w)
    \/ \E w \in Calls : PAttemptStart(w)
    \/ \E w \in Calls : PExhausted(w)
    \/ \E w \in Calls : PWake(w)
    \/ \E w \in Calls : PConnect(w)
    \/ \E w \in Calls : PSendLogin(w)
    \/ \E w \in Calls : PRecvLogin(w)
    \/ \E w \in Calls : PSendCmd(w)
    \/ \E w \in Calls : PRecvCmd(w)
    \/ \E w \in Calls : PSendDc(w)
    \/ \E w \in Calls : PCloseReturn(w)
    \/ \E w \in Calls : PExcept(w)
    \/ \E w \in Calls : PBackoff(w)

SpecPair == Init /\ [][NextPair]_vars

\* one call of the facade by the coordinator or the entity, from any data
\* the coordinator may hold
InitHost ==
    /\ CtlInit
    /\ CodecIdle
    /\ PairIdle
    /\ coordinator_data \in PriorData
    /\ last_update_success \in BOOLEAN
    /\ writes = 0

NextHost ==
    \/ ExecutorResult
    \/ GetStatusReturn
    \/ ArmReturn
    \/ UpdateData
    \/ async_alarm_disarm
    \/ async_alarm_arm_away
    \/ async_alarm_arm_home
    \/ async_alarm_arm_night

SpecHost == InitHost /\ [][NextHost]_vars

----------------------------------------------------------------------------
(* Properties *)

Returned == pc \in {"returned", "done"}

\* how many events of a kind the history holds
Count(kind) == Cardinality({i \in DOMAIN events : events[i][1] = kind})

\* iteration j ended in the exception handler or by the failed-login continue
AttemptFailed(j) ==
    \E i \in DOMAIN events : events[i] \in {<<"except", j>>, <<"login_failed", j>>}

\* C1: an invocation that returns None has performed exactly RETRY_ATTEMPTS
\* attempts; it never returns None after fewer attempts.
C1_RetryBound ==
    (Returned /\ response = None)
        => (attempt = RETRY_ATTEMPTS /\ Count("attempt") = RETRY_ATTEMPTS)

\* C2: when iteration k reaches its return with a decoded (non-None) command
\* response r and the iterations before k failed, the invocation returns
\* exactly r, k iterations were started, and nothing is done after that
\* return: no further knock, no further TCP socket.
C2_EarlySuccess ==
    \A i \in DOMAIN events :
        (/\ events[i][1] = "return"
         /\ cmd_response # None
         /\ _parse_response(cmd_response[1]) # None)
        => LET k == events[i][2]
           IN  /\ i = Len(events)
               /\ Returned
               /\ response = _parse_response(cmd_response[1])
               /\ attempt = k
               /\ Count("attempt") = k
               /\ Count("knock1") <= k
               /\ Count("knock2") <= k
               /\ Count("socket") <= k
               /\ Count("connect") <= k
               /\ \A j \in 1..(k - 1) : AttemptFailed(j)

\* C2 witness: the first attempt failed and the second returned "S=1"
C2_Witness ==
    /\ Returned
    /\ attempt = 2
    /\ AttemptFailed(1)
    /\ response = Some(<<83, 61, 49>>)

\* the login responses that do not decode, or decode to a payload without "R=1"
RefusedLoginResponses ==
    {bytes \in LoginResponses :
        \/ _parse_response(bytes) = None
        \/ ~Contains(_parse_response(bytes)[1], <<82, 61, 49>>)}

\* the frame of "PW=1234"
ExpectedLoginFrame == _create_command(<<80, 87, 61, 49, 50, 51, 52>>)

\* C3: on a connection whose login response does not decode or lacks "R=1",
\* the only frame ever sent is the PW=<code> login frame, and the attempt
\* that opened it sends no command, reads no command response and returns
\* no result.
C3_LoginGating ==
    \A i \in DOMAIN socks :
        (/\ socks[i].login_response # None
         /\ socks[i].login_response[1] \in RefusedLoginResponses)
        => /\ socks[i].sent = <<ExpectedLoginFrame>>
           /\ \A n \in DOMAIN events :
                  events[n][2] = socks[i].att
                  => events[n][1] \notin {"send_cmd", "recv_cmd", "send_dc", "return"}

\* C3 witness: a connection got the answer "R=0" and the worker has moved on
C3_Witness ==
    \E i \in DOMAIN socks :
        /\ socks[i].login_response = Some(ResponseFrame(<<82, 61, 48>>))
        /\ attempt > socks[i].att

\* C4: decoding the frame _create_command built from the ASCII command c
\* gives back exactly c.
C4_RoundTrip ==
    (cstage = "decoded" /\ ckind = "command") => parsed = Some(cin)

\* the payload the decoder is to extract: from 3 bytes in when the byte
\* after START is the flag, from 1 byte in otherwise, up to the checksum
ExtractedPayload(b) ==
    IF b[2] = 255 THEN SubSeq(b, 4, Len(b) - 3) ELSE SubSeq(b, 2, Len(b) - 3)

\* shorter than 6 bytes, a sentinel missing, or the 2 bytes before END not
\* the CRC-16 of the extracted payload
Malformed(b) ==
    \/ Len(b) < 6
    \/ b[1] # 219
    \/ b[Len(b)] # 220
    \/ <<b[Len(b) - 2], b[Len(b) - 1]>> # _calculate_crc(ExtractedPayload(b))

\* C5: every malformed byte sequence decodes to None, never to a payload.
C5_MalformedRejected ==
    (cstage \in {"decoded", "decoded_tampered"} /\ Malformed(raw)) => parsed = None

\* C5 witness: a frame with both sentinels and one checksum byte altered
\* was decoded
C5_Witness ==
    /\ cstage = "decoded_tampered"
    /\ Len(raw) >= 6
    /\ raw[1] = 219
    /\ raw[Len(raw)] = 220
    /\ Malformed(raw)
    /\ parsed = None

\* C6: no facade operation ends by an exception.
C6_NeverRaises == pc = "done" => ~raised

\* the command and the acknowledgement marker of each action, as the
\* specification lists them
ExpectedCommand(o) ==
    CASE o = "armAway"  -> <<65, 82, 61, 49>>
      [] o = "armHome"  -> <<65, 82, 61, 50>>
      [] o = "armNight" -> <<65, 82, 61, 51>>
      [] o = "disarm"   -> <<68, 65, 61, 49>>

ExpectedMarker(o) ==
    CASE o = "armAway"  -> <<83, 61, 49>>
      [] o = "armHome"  -> <<83, 61, 50>>
      [] o = "armNight" -> <<83, 61, 51>>
      [] o = "disarm"   -> <<83, 61, 48>>

ExpectedFrame ==
    [o \in {"armAway", "armHome", "armNight", "disarm"} |->
        _create_command(ExpectedCommand(o))]

\* C7: each action issues its own command, and returns true exactly when
\* the result is not None and contains its own marker.
C7_ActionMapping ==
    (op \in {"armAway", "armHome", "armNight", "disarm"})
    => /\ command = ExpectedCommand(op)
       /\ \A i \in DOMAIN socks :
              Len(socks[i].sent) >= 2
              => socks[i].sent[2] = ExpectedFrame[op]
       /\ pc = "done"
          => /\ ~raised
             /\ ret = IF response # None /\ Contains(response[1], ExpectedMarker(op))
                      THEN "True" ELSE "False"

\* C7 witness: armAway got a result with S=0 and returned false
C7_Witness ==
    /\ pc = "done"
    /\ op = "armAway"
    /\ response = Some(<<83, 61, 48>>)
    /\ ret = "False"

\* C8: getStatus returns None exactly when the retry-controller result is
\* None; a non-None result without "S=" gives "unknown".
C8_StatusNoneIff ==
    (pc = "done" /\ op = "getStatus" /\ ~raised)
    => /\ (ret = "None") <=> (response = None)
       /\ (response # None /\ ~Contains(response[1], <<83, 61>>)) => ret = "unknown"

\* the state the specification gives for the character after "S="
ExpectedState(d) ==
    CASE d = 48 -> "disarmed"
      [] d = 49 -> "armed_away"
      [] d = 50 -> "armed_home"
      [] d = 51 -> "armed_night"
      [] OTHER  -> "unknown"

\* C9: when the status result contains "S=" followed by a character d,
\* getStatus returns the state of d, and never ends in an error.
C9_StateMapping ==
    (/\ pc = "done"
     /\ op = "getStatus"
     /\ response # None
     /\ Find(response[1], <<83, 61>>) # 0
     /\ Find(response[1], <<83, 61>>) + 2 <= Len(response[1]))
    => /\ ~raised
       /\ ret = ExpectedState(response[1][Find(response[1], <<83, 61>>) + 2])

\* C10: a TCP socket is open only during the attempt that opened it, so at
\* most one is open at any time and none is open between attempts or after
\* the invocation returned.
C10_SocketLifecycle ==
    /\ Cardinality({i \in DOMAIN socks : socks[i].open}) <= 1
    /\ \A i \in DOMAIN socks :
           socks[i].open
           => /\ socks[i].att = attempt
              /\ pc \notin {"loop", "backoff", "returned", "done"}

\* the frame of the disconnect command
DisconnectFrame == _create_command(CMD_DISCONNECT)

\* the login response read on socket i was accepted
LoginAccepted(i) ==
    /\ socks[i].login_response # None
    /\ socks[i].login_response[1] \notin RefusedLoginResponses

\* C11: in every session whose login succeeded, the DC=1 frame has been sent
\* on the socket by the time it is closed, whatever the command step did
\* (decoded or undecodable response, send or receive error).
C11_DisconnectBeforeClose ==
    \A i \in DOMAIN socks :
        (LoginAccepted(i) /\ ~socks[i].open)
        => \E k \in DOMAIN socks[i].sent : socks[i].sent[k] = DisconnectFrame

\* bit k (1 = most significant of the first byte) of a byte sequence
BitOf(data, k) == (data[((k - 1) \div 8) + 1] \div (2 ^ (7 - ((k - 1) % 8)))) % 2

\* one step of the division by x^16 + x^12 + x^5 + 1: shift the next bit
\* into the 16-bit register and subtract the polynomial on overflow
XmodemStep(reg, bit) ==
    LET shifted == 2 * reg + bit
    IN  IF shifted >= 65536 THEN BitXor[shifted - 65536, 4129] ELSE shifted

\* the register after bits k.. of the message followed by 16 zero bits
XmodemDivide[reg \in Nat, data \in Seq(Nat), k \in Nat] ==
    IF k > 8 * Len(data) + 16 THEN reg
    ELSE XmodemDivide[XmodemStep(reg, IF k <= 8 * Len(data) THEN BitOf(data, k) ELSE 0),
                      data, k + 1]

\* CRC-16/XMODEM by its definition: the remainder of the message followed by
\* 16 zero bits, divided most significant bit first, from a zero register
XmodemRemainder(data) == XmodemDivide[0, data, 1]

\* a 16-bit value as 2 bytes, most significant first
BigEndian2(v) == <<v \div 256, v % 256>>

\* C12: the checksum is CRC-16/XMODEM as 2 big-endian bytes: 0x0000 on the
\* empty input, 0x31C3 on "123456789"; the encoder puts that checksum of
\* FLAG + command before END, and the decoder accepts a well-delimited frame
\* exactly when its 2 bytes before END are that checksum of the payload.
C12_ChecksumVectors ==
    /\ cstage = "checksummed"
       => /\ raw = BigEndian2(XmodemRemainder(cin))
          /\ cin = <<>> => raw = <<0, 0>>
          /\ cin = <<49, 50, 51, 52, 53, 54, 55, 56, 57>> => raw = <<49, 195>>
    /\ (cstage = "framed" /\ ckind = "command")
       => SubSeq(raw, Len(raw) - 2, Len(raw) - 1)
              = BigEndian2(XmodemRemainder(COMMAND_FLAG \o cin))
    /\ (/\ cstage \in {"decoded", "decoded_tampered"}
        /\ Len(raw) >= 6 /\ raw[1] = 219 /\ raw[Len(raw)] = 220)
       => (parsed # None
           <=> SubSeq(raw, Len(raw) - 2, Len(raw) - 1)
                   = BigEndian2(XmodemRemainder(ExtractedPayload(raw))))

\* C12 witness: the checksum of "123456789" was taken and is 0x31C3
C12_Witness ==
    /\ cstage = "checksummed"
    /\ cin = <<49, 50, 51, 52, 53, 54, 55, 56, 57>>
    /\ raw = <<49, 195>>

\* C13: every attempt after the first starts right after the backoff sleep
\* that followed the failed attempt before it, whether that attempt failed
\* by an exception or by a refused login; no backoff sleep follows the last
\* attempt or a successful one.
C13_Backoff ==
    /\ \A n \in DOMAIN events :
           (events[n][1] = "attempt" /\ events[n][2] > 1)
           => events[n - 1] = <<"backoff", events[n][2] - 1>>
    /\ \A n \in DOMAIN events :
           events[n][1] = "backoff"
           => /\ events[n][2] < RETRY_ATTEMPTS
              /\ \A k \in 1..(n - 1) : events[k][1] # "return"

\* the events that begin a wake-knock sequence
KnockBegun == {"knock1", "knock1_error"}

\* the events an attempt ends with when another attempt may follow
AttemptEnd == {"backoff", "except", "login_failed"}

\* C14: within one invocation at most RETRY_ATTEMPTS attempts are started,
\* counted as loop iterations, as knock sequences begun and as TCP
\* connections opened; attempts do not overlap: the events of attempt k + 1
\* all come after those of attempt k, and attempt k + 1 starts right after
\* attempt k has ended.
C14_AttemptBound ==
    /\ attempt <= RETRY_ATTEMPTS
    /\ Count("attempt") <= RETRY_ATTEMPTS
    /\ Cardinality({n \in DOMAIN events : events[n][1] \in KnockBegun}) <= RETRY_ATTEMPTS
    /\ Count("connect") <= RETRY_ATTEMPTS
    /\ Len(socks) <= RETRY_ATTEMPTS
    /\ \A j \in 1..RETRY_ATTEMPTS :
           /\ Cardinality({n \in DOMAIN events :
                              events[n][1] \in KnockBegun /\ events[n][2] = j}) <= 1
           /\ Cardinality({i \in DOMAIN socks : socks[i].att = j}) <= 1
    /\ \A n \in DOMAIN events :
           /\ events[n][2] \in 1..RETRY_ATTEMPTS
           /\ n > 1 => events[n - 1][2] <= events[n][2]
           /\ (n > 1 /\ events[n][1] = "attempt")
              => /\ events[n - 1][1] \in AttemptEnd
                 /\ events[n - 1][2] = events[n][2] - 1

\* C14 witness: an invocation returned after RETRY_ATTEMPTS attempts that
\* each sent their knocks and opened a connection
C14_Witness ==
    /\ Returned
    /\ Count("attempt") = RETRY_ATTEMPTS
    /\ Count("knock1") = RETRY_ATTEMPTS
    /\ Count("connect") = RETRY_ATTEMPTS

\* the steps of one attempt in the order the claim gives them; "socket" is
\* the creation of the TCP socket before its connect, "login_ok" the read
\* of an accepted login response, "return" the close followed by the return
Pipeline ==
    <<"attempt", "knock1", "knock2", "settle", "socket", "connect", "send_login",
      "login_ok", "send_cmd", "recv_cmd", "send_dc", "return">>

\* the frame of each operation's command
CommandFrame == [o \in Operations |-> _create_command(CommandOf(o))]

\* the place of an event kind in the pipeline, 0 for the other kinds
Rank(kind) ==
    IF \E r \in DOMAIN Pipeline : Pipeline[r] = kind
    THEN CHOOSE r \in DOMAIN Pipeline : Pipeline[r] = kind
    ELSE 0

\* C15: within every attempt the steps happen in the order knock 1, knock 2,
\* settle delay, TCP connect, login frame sent, login response read, command
\* frame sent, command response read, DC=1 sent, socket closed: each step
\* directly follows the step before it in the same attempt.  On every
\* socket the frames are sent in the order login, command, DC=1, and the
\* command frame only after a login response was read.
C15_PipelineOrder ==
    /\ \A n \in DOMAIN events :
           /\ Rank(events[n][1]) > 1
              => /\ n > 1
                 /\ events[n - 1][2] = events[n][2]
                 /\ Rank(events[n - 1][1]) = Rank(events[n][1]) - 1
           /\ events[n][1] = "login_failed"
              => n > 1 /\ events[n - 1] = <<"send_login", events[n][2]>>
    /\ \A i \in DOMAIN socks :
           /\ Len(socks[i].sent) >= 1 => socks[i].connected
           /\ Len(socks[i].sent) >= 1 => socks[i].sent[1] = ExpectedLoginFrame
           /\ Len(socks[i].sent) >= 2
              => /\ socks[i].login_response # None
                 /\ socks[i].sent[2] = CommandFrame[op]
           /\ Len(socks[i].sent) >= 3 => socks[i].sent[3] = DisconnectFrame
           /\ Len(socks[i].sent) <= 3

\* C15 witness: a first attempt ran the whole pipeline and returned
C15_Witness ==
    /\ Returned
    /\ Len(events) = Len(Pipeline)
    /\ \A n \in DOMAIN events : events[n] = <<Pipeline[n], 1>>
    /\ Len(socks[1].sent) = 3

\* the events of a sendto that raised
KnockError == {"knock1_error", "knock2_error"}

\* C16: when sending a knock raises in attempt j, the attempt fails: it
\* opens no TCP socket and sends no frame, it sends no further knock, and
\* what follows is the exception handler, then the backoff sleep and
\* attempt j + 1, or for the last attempt the return of None.
C16_WakeFailure ==
    \A n \in DOMAIN events :
        events[n][1] \in KnockError
        => LET j == events[n][2]
               last == Len(events)
           IN  /\ \A i \in DOMAIN socks : socks[i].att # j
               /\ \A k \in (n + 1)..last :
                      events[k][2] = j => events[k][1] \in {"except", "backoff", "exhausted"}
               /\ Cardinality({k \in DOMAIN events :
                      events[k][2] = j /\ events[k][1] \in {"knock1", "knock1_error"}}) = 1
               /\ Cardinality({k \in DOMAIN events :
                      events[k][2] = j /\ events[k][1] \in {"knock2", "knock2_error"}}) <= 1
               /\ last >= n + 1 => events[n + 1] = <<"except", j>>
               /\ last >= n + 2
                  => events[n + 2] = IF j < RETRY_ATTEMPTS THEN <<"backoff", j>>
                                     ELSE <<"exhausted", j>>
               /\ (last >= n + 3 /\ j < RETRY_ATTEMPTS)
                  => events[n + 3] = <<"attempt", j + 1>>
               /\ (j = RETRY_ATTEMPTS /\ Returned) => response = None

\* C16 witness: the second knock of attempt 1 raised and attempt 2 started
C16_Witness ==
    /\ Len(events) >= 6
    /\ events[3] = <<"knock2_error", 1>>
    /\ events[6] = <<"attempt", 2>>

\* C17: every invocation of _connect_and_execute eventually returns, a
\* result or None, whatever the panel and the network do.
C17_Termination == (pc # "idle") ~> Returned

\* C17 witness: the invocation returned after the panel refused every login
C17_Witness ==
    /\ Returned
    /\ response = None
    /\ Count("login_failed") = RETRY_ATTEMPTS

\* the ASCII bytes of a byte sequence, in order
AsciiOnly(b) == SelectSeq(b, LAMBDA x : x < 128)

AlarmCodeHex == Hex(alarm_code)

\* C19: no log record carries the alarm code, as text or within the
\* hexadecimal rendering of a frame.
C19_NoAlarmCodeInLogs ==
    \A n \in DOMAIN logged :
        \A a \in DOMAIN logged[n].args :
            /\ ~Contains(logged[n].args[a], alarm_code)
            /\ ~Contains(logged[n].args[a], AlarmCodeHex)

\* C18: two overlapping invocations share no session state: the open socket
\* an invocation holds is one it created, every socket is sent and read on
\* by its creator only, while an invocation holds a command response that
\* response is what the panel delivered on its own socket and its result
\* the decoding of it, and the value it returns is that decoding.
C18_Isolation ==
    /\ \A i \in DOMAIN conns : ~conns[i].foreign
    /\ \A w \in Calls :
           /\ (calls[w].sock # 0 /\ conns[calls[w].sock].open)
              => conns[calls[w].sock].owner = w
           /\ calls[w].pc \in {"send_dc", "close"}
              => /\ calls[w].cmd_response # None
                 /\ calls[w].cmd_response = conns[calls[w].sock].rcvd
           /\ calls[w].cmd_response # None
              => calls[w].result = _parse_response(calls[w].cmd_response[1])
           /\ (calls[w].pc = "returned" /\ calls[w].response # None)
              => calls[w].response = calls[w].result

\* C18 witness: both invocations are in a session at once, each holding the
\* answer of its own connection, and the answers differ
C18_Witness ==
    /\ calls[1].pc = "close"
    /\ calls[2].pc = "close"
    /\ conns[calls[1].sock].open
    /\ conns[calls[2].sock].open
    /\ calls[1].result # calls[2].result

\* the states a poll may store
DomainStates == {"disarmed", "armed_away", "armed_home", "armed_night", "unknown"}

\* C21: a poll whose getStatus returned None (or raised) ends in
\* UpdateFailed and leaves the coordinator data as it was; a poll that
\* succeeds stores {state: s} with s the returned status, one of disarmed,
\* armed_away, armed_home, armed_night, unknown, never None.
C21_PollFailure ==
    [][(pc = "done" /\ op = "getStatus" /\ pc' = "finished")
       => /\ (ret = "None" \/ raised)
             => /\ ~last_update_success'
                /\ coordinator_data' = coordinator_data
          /\ last_update_success'
             => /\ ret \in DomainStates
                /\ coordinator_data' = Some(ret)
          /\ writes' = writes]_vars

\* C21 witness: a poll got None, failed, and the data of before is kept
C21_Witness ==
    /\ pc = "finished"
    /\ op = "getStatus"
    /\ ret = "None"
    /\ ~last_update_success
    /\ coordinator_data = Some("armed_away")

\* the entity actions and the state each one stands for
EntityOps == {"disarm", "armAway", "armHome", "armNight"}

MatchingState ==
    [o \in EntityOps |-> CASE o = "disarm"   -> "disarmed"
                           [] o = "armAway"  -> "armed_away"
                           [] o = "armHome"  -> "armed_home"
                           [] o = "armNight" -> "armed_night"]

\* C22: an entity action (disarm, arm away, arm home, arm night) that got
\* true from the facade sets the coordinator data to its matching state and
\* writes the entity state once; one that got false leaves the coordinator
\* data unchanged and writes no state.
C22_OptimisticUpdate ==
    [][(pc = "done" /\ op \in EntityOps /\ pc' = "finished")
       => /\ ret \in {"True", "False"}
          /\ ret = "True"
             => /\ coordinator_data' = Some(MatchingState[op])
                /\ writes' = writes + 1
          /\ ret = "False"
             => /\ coordinator_data' = coordinator_data
                /\ writes' = writes
          /\ last_update_success' = last_update_success]_vars

\* C22 witness: arm away got true from the facade; the data now says
\* armed_away and the state was written once
C22_Witness ==
    /\ pc = "finished"
    /\ op = "armAway"
    /\ ret = "True"
    /\ coordinator_data = Some("armed_away")
    /\ writes = 1

\* the errors an attempt can end with once its login was accepted
ErrorAfterLogin == {"send_cmd_error", "recv_cmd_error", "send_dc_error"}

\* C23: within one invocation the caller's command frame is sent at most
\* once per attempt; once response bytes to the command frame have been
\* received, no further command frame is sent and no further attempt is
\* started; the command frame is sent in more than one attempt only when an
\* earlier attempt ended with a send/receive error after login.
C23_NoResendAfterAnswer ==
    /\ \A i, j \in DOMAIN events :
           (i < j /\ events[i][1] = "send_cmd" /\ events[j][1] = "send_cmd")
           => events[i][2] # events[j][2]
    /\ \A i, j \in DOMAIN events :
           (i < j /\ events[i][1] = "recv_cmd")
           => events[j][1] \notin {"send_cmd", "attempt"}
    /\ \A i, j \in DOMAIN events :
           (i < j /\ events[i][1] = "send_cmd" /\ events[j][1] = "send_cmd")
           => \E k \in (i + 1)..(j - 1) :
                  /\ events[k][1] \in ErrorAfterLogin
                  /\ events[k][2] = events[i][2]

====
